---- MODULE Spec2Model ----
(***************************************************************************)
(* Model of the consensus bridge of the settlement layer:                  *)
(*   - pkg/block: FromAvail, the block codec;                              *)
(*   - consensus/avail: getNextAvailBlockNumber, syncFunc and syncNode,    *)
(*     the syncer;                                                         *)
(*   - consensus/avail: ensureStaked, stakeParticipant and                 *)
(*     stakeParticipantThroughTxPool, the staking state machine.           *)
(* External collaborators (fraud resolver, validator, blockchain, txpool,  *)
(* participant querier, DA client) answer nondeterministically.            *)
(***************************************************************************)
EXTENDS Integers, Sequences, FiniteSets, TLC

\* ------------------------------------------------------------------ bounds
\* Largest number of extrinsics of one DA block given to the codec.
MaxExt == 3
\* Largest settlement block number embedded in an extrinsic.
MaxBlk == 2
\* DA blocks are numbered 0..MaxDA.
MaxDA == 2
\* Number of DA blocks the block stream delivers to one syncNode run.
MaxRecv == 2
\* Number of stake transactions the staking state machine may construct.
MaxStakeTx == 2

\* ------------------------------------------------------- program constants
\* The retry loop with the bound tested as retries <= 10.
MaxRetries_OffByOne == 10 + 1

\* Bound of the AddTx retry loop of stakeParticipantThroughTxPool.
MaxRetries == 10

\* ------------------------------------------------------------- block codec
\* The application identifier and call index the node is configured with,
\* and one foreign value of each.
AppIDs == {"appA", "appB"}
CallIdxs == {"callA", "callB"}

\* What an extrinsic's Method.Args can hold, by how far it decodes: bytes
\* that are no SCALE byte sequence ("garbage"), a byte sequence that is no
\* Blob ("bytes"), a Blob whose Data is no RLP block ("blob"), or a Blob
\* whose Data is the RLP encoding of settlement block Number ("block").
Payloads ==
    {[tag |-> t, Number |-> 0] : t \in {"garbage", "bytes", "blob"}}
      \cup {[tag |-> "block", Number |-> n] : n \in 1..MaxBlk}

Extrinsics == [AppID : AppIDs, CallIndex : CallIdxs, Args : Payloads]

ErrNone == "nil"
ErrNoExtrinsicFound == "no compatible extrinsic found"
ErrDecode == "rlp: decode error"

\* codec.Decode(extrinsic.Method.Args, &bs)
DecodeBytes(args) ==
    IF args.tag = "garbage" THEN [err |-> TRUE, bs |-> args]
    ELSE [err |-> FALSE, bs |-> args]

\* blob.Decode(decoder) on the byte sequence bs
DecodeBlob(bs) ==
    IF bs.tag = "bytes" THEN [err |-> TRUE, Data |-> bs]
    ELSE [err |-> FALSE, Data |-> bs]

\* blk.UnmarshalRLP(blob.Data)
UnmarshalRLP(data) ==
    IF data.tag = "blob" THEN [err |-> TRUE, Number |-> 0]
    ELSE [err |-> FALSE, Number |-> data.Number]

\* ExtrinsicStep with the call-index filter left out.
ExtrinsicStep_NoCallIdxFilter(e, appID, callIdx) ==
    IF e.AppID # appID THEN [do |-> "skip", Number |-> 0]
    ELSE IF DecodeBytes(e.Args).err \/ DecodeBlob(e.Args).err
    THEN [do |-> "skip", Number |-> 0]
    ELSE IF UnmarshalRLP(e.Args).err THEN [do |-> "fatal", Number |-> 0]
    ELSE [do |-> "block", Number |-> e.Args.Number]

\* ExtrinsicStep with a Blob decode failure returned like a payload failure.
ExtrinsicStep_BlobFatal(e, appID, callIdx) ==
    IF e.AppID # appID \/ e.CallIndex # callIdx THEN [do |-> "skip", Number |-> 0]
    ELSE IF DecodeBytes(e.Args).err THEN [do |-> "skip", Number |-> 0]
    ELSE IF DecodeBlob(e.Args).err \/ UnmarshalRLP(e.Args).err
    THEN [do |-> "fatal", Number |-> 0]
    ELSE [do |-> "block", Number |-> e.Args.Number]

\* ExtrinsicStep with a payload decode failure skipped like the outer ones.
ExtrinsicStep_PayloadSkipped(e, appID, callIdx) ==
    IF e.AppID # appID \/ e.CallIndex # callIdx THEN [do |-> "skip", Number |-> 0]
    ELSE IF DecodeBytes(e.Args).err \/ DecodeBlob(e.Args).err \/ UnmarshalRLP(e.Args).err
    THEN [do |-> "skip", Number |-> 0]
    ELSE [do |-> "block", Number |-> e.Args.Number]

\* The body of FromAvail's loop for one extrinsic: "skip" is a continue,
\* "fatal" the return of the UnmarshalRLP error, "block" an append.
ExtrinsicStep(e, appID, callIdx) ==
    IF e.AppID # appID THEN [do |-> "skip", Number |-> 0]
    ELSE IF e.CallIndex # callIdx THEN [do |-> "skip", Number |-> 0]
    ELSE
      LET bs == DecodeBytes(e.Args) IN
      IF bs.err THEN [do |-> "skip", Number |-> 0]
      ELSE
        LET blob == DecodeBlob(bs.bs) IN
        IF blob.err THEN [do |-> "skip", Number |-> 0]
        ELSE
          LET blk == UnmarshalRLP(blob.Data) IN
          IF blk.err THEN [do |-> "fatal", Number |-> 0]
          ELSE [do |-> "block", Number |-> blk.Number]

\* FromAvail's loop from extrinsic i with toReturn = acc, and its tail.
\* The result also carries the number of extrinsics the loop examined.
RECURSIVE FromAvailLoop(_, _, _, _, _)
FromAvailLoop(exts, appID, callIdx, i, acc) ==
    IF i > Len(exts)
    THEN IF Len(acc) = 0
         THEN [blks |-> <<>>, isNil |-> TRUE, err |-> ErrNoExtrinsicFound, examined |-> i - 1]
         ELSE [blks |-> acc, isNil |-> FALSE, err |-> ErrNone, examined |-> i - 1]
    ELSE
      LET st == ExtrinsicStep(exts[i], appID, callIdx) IN
      CASE st.do = "skip" -> FromAvailLoop(exts, appID, callIdx, i + 1, acc)
        [] st.do = "fatal" ->
             [blks |-> <<>>, isNil |-> TRUE, err |-> ErrDecode, examined |-> i]
        [] OTHER -> FromAvailLoop(exts, appID, callIdx, i + 1, Append(acc, st.Number))

FromAvail(exts, appID, callIdx) == FromAvailLoop(exts, appID, callIdx, 1, <<>>)

\* ------------------------------------------------------------------ syncer
\* d.availAppID and the call index FindCallIndex resolves.
NodeAppID == "appA"
NodeCallIdx == "callA"

\* Avail.syncFunc: the predicate given to SearchBlock.
syncFunc(availBlkNumber, exts, targetEdgeBlock) ==
    LET r == FromAvail(exts, NodeAppID, NodeCallIdx) IN
    IF r.err # ErrNone /\ r.err # ErrNoExtrinsicFound
    THEN [off |-> -1, found |-> FALSE, err |-> TRUE]
    ELSE IF r.isNil \/ Len(r.blks) < 1
    THEN [off |-> -1, found |-> FALSE, err |-> FALSE]
    ELSE IF \E i \in 1..Len(r.blks) : r.blks[i] = targetEdgeBlock
    THEN [off |-> availBlkNumber, found |-> TRUE, err |-> FALSE]
    ELSE [off |-> -1, found |-> FALSE, err |-> FALSE]

\* The DA client's range search: the DA blocks numbered n..to of the history,
\* in order, until the predicate reports a match or an error; no match is an
\* error. The predicate's target is the settlement number the caller gave.
RECURSIVE SearchRange(_, _, _, _)
SearchRange(n, to, target, hist) ==
    IF n > to \/ n \notin DOMAIN hist
    THEN [err |-> TRUE, Number |-> 0]
    ELSE LET f == syncFunc(n, hist[n], target) IN
         IF f.err THEN [err |-> TRUE, Number |-> 0]
         ELSE IF f.found THEN [err |-> FALSE, Number |-> f.off]
         ELSE SearchRange(n + 1, to, target, hist)

SearchBlock(from, to, hist, rpcErr) ==
    IF rpcErr THEN [err |-> TRUE, Number |-> 0]
    ELSE SearchRange(from, to, to, hist)

\* getNextAvailBlockNumber without the shortcut for a chain at genesis.
getNextAvailBlockNumber_AlwaysSearch(headNumber, hist, rpcErr) ==
    LET blk == SearchBlock(0, headNumber, hist, rpcErr) IN
    IF blk.err THEN 0 ELSE blk.Number

\* Avail.getNextAvailBlockNumber, for the local head number headNumber.
getNextAvailBlockNumber(headNumber, hist, rpcErr) ==
    IF headNumber = 0 THEN 1
    ELSE LET blk == SearchBlock(0, headNumber, hist, rpcErr) IN
         IF blk.err THEN 0 ELSE blk.Number

\* The number of SearchBlock queries getNextAvailBlockNumber issues.
SearchBlockCalls(headNumber) == IF headNumber = 0 THEN 0 ELSE 1

\* EdgeBlockGate with the validator consulted before the fraud gate.
EdgeBlockGate_CheckFirst(fraud, checkErr) ==
    IF ~checkErr
    THEN IF ~fraud
         THEN [checkCalled |-> TRUE, writeCalled |-> TRUE]
         ELSE [checkCalled |-> TRUE, writeCalled |-> FALSE]
    ELSE [checkCalled |-> TRUE, writeCalled |-> FALSE]

\* EdgeBlockGate with the validator's error only logged.
EdgeBlockGate_WriteOnCheckErr(fraud, checkErr) ==
    IF ~fraud
    THEN [checkCalled |-> TRUE, writeCalled |-> TRUE]
    ELSE [checkCalled |-> FALSE, writeCalled |-> FALSE]

\* EdgeBlockGate without the fraud gate.
EdgeBlockGate_NoFraudGate(fraud, checkErr) ==
    IF ~checkErr
    THEN [checkCalled |-> TRUE, writeCalled |-> TRUE]
    ELSE [checkCalled |-> TRUE, writeCalled |-> FALSE]

\* The body of syncNode's loop over edgeBlks for one settlement block, given
\* the answers of IsFraudProofBlock and of validator.Check: which of Check and
\* WriteBlock it calls.
EdgeBlockGate(fraud, checkErr) ==
    IF ~fraud
    THEN IF ~checkErr
         THEN [checkCalled |-> TRUE, writeCalled |-> TRUE]
         ELSE [checkCalled |-> TRUE, writeCalled |-> FALSE]
    ELSE [checkCalled |-> FALSE, writeCalled |-> FALSE]

\* RangeIndex visiting edgeBlks from the last element to the first.
RangeIndex_Reversed(blks, i) == Len(blks) - i + 1

\* The index the i-th iteration of `for _, edgeBlk := range edgeBlks` visits.
RangeIndex(blks, i) == i

Ext(tag, n) ==
    [AppID |-> NodeAppID, CallIndex |-> NodeCallIdx, Args |-> [tag |-> tag, Number |-> n]]

\* The extrinsic lists of the DA blocks the syncer is run on: no settlement
\* data, one block, two blocks, a block followed by a corrupt payload.
SyncContent(k) ==
    CASE k = 0 -> <<>>
      [] k = 1 -> <<Ext("block", 1)>>
      [] k = 2 -> <<Ext("block", 1), Ext("block", MaxBlk)>>
      [] OTHER -> <<Ext("block", 1), Ext("blob", 0)>>

\* The DA histories the syncer is run on: DA block n holds content n + k.
SyncHistories == { [n \in 0..MaxDA |-> SyncContent((n + k) % 4)] : k \in 0..3 }

\* The extrinsic lists of the DA histories getNextAvailBlockNumber is run on.
HistContents ==
    { <<>> } \cup { <<Ext(pl.tag, pl.Number)>> : pl \in Payloads }
      \cup { <<Ext("block", a), Ext("block", b)>> : a, b \in 1..MaxBlk }

NoRet == [set |-> FALSE, n |-> 0, err |-> ErrNone]
Ret(n, e) == [set |-> TRUE, n |-> n, err |-> e]

VARIABLES
    \* block codec under test
    cExts, cAppID, cCallIdx, cRes,
    \* DA history; local chain head number; the WriteBlock calls made so far
    da, head, writes,
    \* syncNode; what the stream delivered, what the gates answered, and the
    \* syncer's WriteBlock calls in order
    spc, availNextBlockNumber, hdr, blk, edgeBlks, edgeI, processed,
    delivered, commits, closeCh, unstakeCalls, syncRet,
    \* SearchBlock queries issued by getNextAvailBlockNumber
    searchCalls

codecVars == <<cExts, cAppID, cCallIdx, cRes>>
chainVars == <<da, head, writes>>
syncVars == <<spc, availNextBlockNumber, hdr, blk, edgeBlks, edgeI, processed,
              delivered, commits, closeCh, unstakeCalls, syncRet, searchCalls>>

VARIABLES
    \* ensureStaked: the node's role, the caller, the background loop
    role, epc, callerRet, stk, returnErr, inProbation, staked,
    \* stake transactions constructed, AddTx retries, the staking block in hand
    txBuilt, retries, stakeBlk,
    \* participant record: stake submissions not yet effective, and the flags
    pending, partStaked, partProbation

stakeVars == <<role, epc, callerRet, stk, returnErr, inProbation, staked,
               txBuilt, retries, stakeBlk>>
partVars == <<pending, partStaked, partProbation>>
vars == <<codecVars, chainVars, syncVars, stakeVars, partVars>>

\* syncNode up to the opening of the block stream (lines 28-47).
SyncStart ==
    /\ spc = "start"
    /\ \E rpcErr \in BOOLEAN, hdrErr \in BOOLEAN, idxErr \in BOOLEAN, h \in 0..MaxDA :
         LET next == getNextAvailBlockNumber(head, da, rpcErr) IN
         /\ availNextBlockNumber' = next
         /\ searchCalls' = searchCalls + SearchBlockCalls(head)
         /\ IF hdrErr
            THEN /\ spc' = "done"
                 /\ syncRet' = Ret(0, ErrNone)
                 /\ hdr' = hdr
            ELSE IF idxErr
            THEN /\ spc' = "done"
                 /\ syncRet' = Ret(next, "call index not found")
                 /\ hdr' = h
            ELSE /\ spc' = "recv"
                 /\ syncRet' = syncRet
                 /\ hdr' = h
    /\ UNCHANGED <<blk, edgeBlks, edgeI, processed, delivered, commits, closeCh, unstakeCalls>>
    /\ UNCHANGED <<codecVars, chainVars, stakeVars, partVars>>

\* The select's stream case and the FromAvail call after it (lines 53, 63-69).
SyncReceive ==
    /\ spc = "recv"
    /\ Len(delivered) < MaxRecv
    /\ \E n \in 0..MaxDA :
         LET r == FromAvail(da[n], NodeAppID, NodeCallIdx) IN
         /\ blk' = n
         /\ delivered' = Append(delivered, n)
         /\ edgeBlks' = r.blks
         /\ edgeI' = 1
         /\ IF Len(r.blks) = 0 /\ r.err # ErrNone /\ r.err # ErrNoExtrinsicFound
            THEN spc' = "recv"
            ELSE spc' = "process"
    /\ UNCHANGED <<availNextBlockNumber, hdr, processed, commits, closeCh, unstakeCalls, syncRet,
                   searchCalls>>
    /\ UNCHANGED <<codecVars, chainVars, stakeVars, partVars>>

\* One iteration of the loop over edgeBlks (lines 73-96).
SyncEdgeBlock ==
    /\ spc = "process"
    /\ edgeI <= Len(edgeBlks)
    /\ \E fraud \in BOOLEAN, checkErr \in BOOLEAN, writeErr \in BOOLEAN :
         LET g == EdgeBlockGate(fraud, checkErr)
             at == RangeIndex(edgeBlks, edgeI)
             here == [pos |-> Len(delivered), idx |-> at, da |-> blk, Number |-> edgeBlks[at]]
         IN
         /\ processed' = processed \cup
                {[fraud |-> fraud,
                  checkCalled |-> g.checkCalled,
                  checkErr |-> g.checkCalled /\ checkErr,
                  writeCalled |-> g.writeCalled]}
         /\ IF g.writeCalled
            THEN /\ writes' = writes \cup
                      {[src |-> "sync", gated |-> ~fraud,
                        checked |-> g.checkCalled /\ ~checkErr, sent |-> FALSE,
                        ok |-> ~writeErr]}
                 /\ commits' = Append(commits, here)
                 /\ head' = IF writeErr THEN head ELSE here.Number
            ELSE UNCHANGED <<writes, commits, head>>
    /\ edgeI' = edgeI + 1
    /\ UNCHANGED <<spc, availNextBlockNumber, hdr, blk, edgeBlks, delivered, closeCh,
                   unstakeCalls, syncRet, searchCalls>>
    /\ UNCHANGED <<codecVars, da, stakeVars, partVars>>

\* The end of the loop body (lines 98-106).
SyncAdvance ==
    /\ spc = "process"
    /\ edgeI > Len(edgeBlks)
    /\ availNextBlockNumber' = blk
    /\ IF hdr = blk
       THEN /\ spc' = "done"
            /\ syncRet' = Ret(blk, ErrNone)
       ELSE /\ spc' = "recv"
            /\ syncRet' = syncRet
    /\ UNCHANGED <<hdr, blk, edgeBlks, edgeI, processed, delivered, commits, closeCh, unstakeCalls,
                   searchCalls>>
    /\ UNCHANGED <<codecVars, chainVars, stakeVars, partVars>>

\* SyncShutdown with a failed UnStake sending the loop back to the select.
SyncShutdown_RetryOnUnstakeError ==
    /\ spc = "recv"
    /\ closeCh
    /\ unstakeCalls < 2
    /\ unstakeCalls' = unstakeCalls + 1
    /\ \E unstakeErr \in BOOLEAN :
         IF unstakeErr
         THEN /\ syncRet' = syncRet
              /\ partStaked' = partStaked
              /\ spc' = "recv"
         ELSE /\ syncRet' = Ret(0, ErrNone)
              /\ partStaked' = FALSE
              /\ spc' = "done"
    /\ UNCHANGED <<availNextBlockNumber, hdr, blk, edgeBlks, edgeI, processed, delivered,
                   commits, closeCh, searchCalls>>
    /\ UNCHANGED <<codecVars, chainVars, stakeVars, pending, partProbation>>

\* The select's closeCh case (lines 55-61).
SyncShutdown ==
    /\ spc = "recv"
    /\ closeCh
    /\ unstakeCalls' = unstakeCalls + 1
    /\ \E unstakeErr \in BOOLEAN :
         IF unstakeErr
         THEN /\ syncRet' = Ret(availNextBlockNumber, ErrNone)
              /\ partStaked' = partStaked
         ELSE /\ syncRet' = Ret(0, ErrNone)
              /\ partStaked' = FALSE
    /\ spc' = "done"
    /\ UNCHANGED <<availNextBlockNumber, hdr, blk, edgeBlks, edgeI, processed, delivered,
                   commits, closeCh, searchCalls>>
    /\ UNCHANGED <<codecVars, chainVars, stakeVars, pending, partProbation>>

\* The node is told to shut down: closeCh is closed.
EnvClose ==
    /\ ~closeCh
    /\ closeCh' = TRUE
    /\ UNCHANGED <<spc, availNextBlockNumber, hdr, blk, edgeBlks, edgeI, processed,
                   delivered, commits, unstakeCalls, syncRet, searchCalls>>
    /\ UNCHANGED <<codecVars, chainVars, stakeVars, partVars>>

\* ---------------------------------------------------- staking state machine
Roles == {"bootstrap-sequencer", "sequencer", "watchtower", "unknown"}

ErrUnknownNodeType == "unknown node type"
ErrQuery == "participant query failed"
ErrBlockBuilder == "block builder failed"
ErrStakeTx == "stake tx construction failed"
ErrSignTx == "stake tx signing failed"
ErrBuild == "staking block build failed"
ErrSend == "avail submission failed"
ErrWrite == "write block failed"
ErrAddTx == "txpool add failed"

\* AfterInProbation with the probation flag not looked at.
AfterInProbation_IgnoreProbation(err, isInProbation) ==
    IF err THEN "probation" ELSE "contains"

\* Where the background loop goes after the InProbation query (lines 53-64).
AfterInProbation(err, isInProbation) ==
    IF err THEN "probation"
    ELSE IF isInProbation THEN "probation"
    ELSE "contains"

\* AfterContains with the staked flag not looked at.
AfterContains_IgnoreStaked(err, isStaked) ==
    IF err THEN "probation" ELSE "dispatch"

\* Where the background loop goes after the Contains query (lines 66-77).
AfterContains(err, isStaked) ==
    IF err THEN "probation"
    ELSE IF isStaked THEN "probation"
    ELSE "dispatch"

\* The switch on the node's role (lines 79-93).
StakePath(r) ==
    CASE r = "bootstrap-sequencer" -> "sp_build"
      [] r = "sequencer" -> "tp_wait"
      [] r = "watchtower" -> "tp_wait"
      [] OTHER -> "probation"

\* Where stakeParticipantThroughTxPool goes after its Contains poll (lines 211-221).
AfterPoll(err, isStaked) ==
    IF err THEN "probation"
    ELSE IF isStaked THEN "exit"
    ELSE "tp_poll"

\* ensureStaked up to the go statement (lines 37-51).
EnsureStaked ==
    /\ epc = "call"
    /\ IF role \in {"bootstrap-sequencer", "sequencer", "watchtower"}
       THEN /\ epc' = "spawned"
            /\ stk' = "probation"
            /\ callerRet' = callerRet
       ELSE /\ epc' = "returned"
            /\ stk' = stk
            /\ callerRet' = Ret(0, ErrUnknownNodeType)
    /\ UNCHANGED <<role, returnErr, inProbation, staked, txBuilt, retries, stakeBlk>>
    /\ UNCHANGED <<codecVars, chainVars, syncVars, partVars>>

\* ensureStaked's return of returnErr (line 97), unsynchronised with the
\* background loop's writes: the read sees nil or the value written.
EnsureStakedReturn ==
    /\ epc = "spawned"
    /\ epc' = "returned"
    /\ \E seen \in {ErrNone, returnErr} : callerRet' = Ret(0, seen)
    /\ UNCHANGED <<role, stk, returnErr, inProbation, staked, txBuilt, retries, stakeBlk>>
    /\ UNCHANGED <<codecVars, chainVars, syncVars, partVars>>

\* The InProbation query and its two continues (lines 53-64).
StkProbation ==
    /\ stk = "probation"
    /\ \E err \in BOOLEAN :
         /\ stk' = AfterInProbation(err, partProbation)
         /\ inProbation' = IF err THEN "err" ELSE IF partProbation THEN "true" ELSE "false"
    /\ staked' = "unset"
    /\ UNCHANGED <<role, epc, callerRet, returnErr, txBuilt, retries, stakeBlk>>
    /\ UNCHANGED <<codecVars, chainVars, syncVars, partVars>>

\* The Contains query and its two continues (lines 66-77).
StkContains ==
    /\ stk = "contains"
    /\ \E err \in BOOLEAN :
         /\ stk' = AfterContains(err, partStaked)
         /\ staked' = IF err THEN "err" ELSE IF partStaked THEN "true" ELSE "false"
    /\ UNCHANGED <<role, epc, callerRet, returnErr, inProbation, txBuilt, retries, stakeBlk>>
    /\ UNCHANGED <<codecVars, chainVars, syncVars, partVars>>

\* The switch on MechanismType(d.nodeType) (lines 79-93).
StkDispatch ==
    /\ stk = "dispatch"
    /\ txBuilt < MaxStakeTx
    /\ stk' = StakePath(role)
    /\ UNCHANGED <<role, epc, callerRet, returnErr, inProbation, staked, txBuilt, retries,
                   stakeBlk>>
    /\ UNCHANGED <<codecVars, chainVars, syncVars, partVars>>

\* stakeParticipant(false, "sequencer") up to bb.Build (lines 100-141).
SpBuild ==
    /\ stk = "sp_build"
    /\ \E e \in {ErrBlockBuilder, ErrStakeTx, ErrSignTx, ErrBuild, ErrNone} :
         /\ txBuilt' = IF e \in {ErrBlockBuilder, ErrStakeTx} THEN txBuilt ELSE txBuilt + 1
         /\ IF e = ErrNone
            THEN /\ stk' = "sp_send"
                 /\ returnErr' = returnErr
                 /\ stakeBlk' = "built"
            ELSE /\ stk' = "probation"
                 /\ returnErr' = e
                 /\ stakeBlk' = "none"
    /\ UNCHANGED <<role, epc, callerRet, inProbation, staked, retries>>
    /\ UNCHANGED <<codecVars, chainVars, syncVars, partVars>>

\* SpSend with a failed submission only logged.
SpSend_ErrorOnlyLogged ==
    /\ stk = "sp_send"
    /\ \E err \in BOOLEAN :
         /\ stk' = "sp_write"
         /\ returnErr' = returnErr
         /\ stakeBlk' = IF err THEN stakeBlk ELSE "sent"
         /\ pending' = IF err THEN pending ELSE pending + 1
    /\ UNCHANGED <<role, epc, callerRet, inProbation, staked, txBuilt, retries>>
    /\ UNCHANGED <<codecVars, chainVars, syncVars, partStaked, partProbation>>

\* d.availSender.SendAndWaitForStatus (lines 144-148).
SpSend ==
    /\ stk = "sp_send"
    /\ \E err \in BOOLEAN :
         IF err
         THEN /\ stk' = "probation"
              /\ returnErr' = ErrSend
              /\ stakeBlk' = "none"
              /\ pending' = pending
         ELSE /\ stk' = "sp_write"
              /\ returnErr' = returnErr
              /\ stakeBlk' = "sent"
              /\ pending' = pending + 1
    /\ UNCHANGED <<role, epc, callerRet, inProbation, staked, txBuilt, retries>>
    /\ UNCHANGED <<codecVars, chainVars, syncVars, partStaked, partProbation>>

\* d.blockchain.WriteBlock of the staking block (lines 155-160). A written
\* staking block executes the stake transaction.
SpWrite ==
    /\ stk = "sp_write"
    /\ \E err \in BOOLEAN :
         /\ writes' = writes \cup
               {[src |-> "stake", gated |-> FALSE, checked |-> FALSE,
                 sent |-> (stakeBlk = "sent"), ok |-> ~err]}
         /\ IF err
            THEN /\ returnErr' = ErrWrite
                 /\ UNCHANGED <<pending, partStaked, head>>
            ELSE /\ returnErr' = ErrNone
                 /\ pending' = 0
                 /\ partStaked' = TRUE
                 /\ head' = head + 1
    /\ stk' = "probation"
    /\ stakeBlk' = "none"
    /\ UNCHANGED <<role, epc, callerRet, inProbation, staked, txBuilt, retries>>
    /\ UNCHANGED <<codecVars, da, syncVars, partProbation>>

\* The wait for a bootnode connection (lines 165-177).
TpWait ==
    /\ stk = "tp_wait"
    /\ \E connected \in BOOLEAN : stk' = IF connected THEN "tp_build" ELSE "tp_wait"
    /\ UNCHANGED <<role, epc, callerRet, returnErr, inProbation, staked, txBuilt, retries,
                   stakeBlk>>
    /\ UNCHANGED <<codecVars, chainVars, syncVars, partVars>>

\* Construction and signing of the stake transaction (lines 179-189).
TpBuild ==
    /\ stk = "tp_build"
    /\ \E e \in {ErrStakeTx, ErrSignTx, ErrNone} :
         /\ txBuilt' = IF e = ErrStakeTx THEN txBuilt ELSE txBuilt + 1
         /\ IF e = ErrNone
            THEN /\ stk' = "tp_add"
                 /\ UNCHANGED <<returnErr, staked>>
            ELSE /\ stk' = "probation"
                 /\ returnErr' = e
                 /\ staked' = "false"
    /\ retries' = 0
    /\ UNCHANGED <<role, epc, callerRet, inProbation, stakeBlk>>
    /\ UNCHANGED <<codecVars, chainVars, syncVars, partVars>>

\* One iteration of the AddTx retry loop, and the check after it (lines 191-205).
TpAdd ==
    /\ stk = "tp_add"
    /\ retries < MaxRetries
    /\ \E err \in BOOLEAN :
         IF err
         THEN /\ retries' = retries + 1
              /\ IF retries + 1 < MaxRetries
                 THEN /\ stk' = "tp_add"
                      /\ UNCHANGED <<returnErr, staked>>
                 ELSE /\ stk' = "probation"
                      /\ returnErr' = ErrAddTx
                      /\ staked' = "false"
              /\ pending' = pending
         ELSE /\ stk' = "tp_poll"
              /\ pending' = pending + 1
              /\ UNCHANGED <<retries, returnErr, staked>>
    /\ UNCHANGED <<role, epc, callerRet, inProbation, txBuilt, stakeBlk>>
    /\ UNCHANGED <<codecVars, chainVars, syncVars, partStaked, partProbation>>

\* One iteration of the poll for the staked flag (lines 211-221).
TpPoll ==
    /\ stk = "tp_poll"
    /\ \E err \in BOOLEAN :
         /\ stk' = AfterPoll(err, partStaked)
         /\ IF err
            THEN /\ returnErr' = ErrQuery
                 /\ staked' = "false"
            ELSE IF partStaked
            THEN /\ returnErr' = ErrNone
                 /\ staked' = "true"
            ELSE UNCHANGED <<returnErr, staked>>
    /\ UNCHANGED <<role, epc, callerRet, inProbation, txBuilt, retries, stakeBlk>>
    /\ UNCHANGED <<codecVars, chainVars, syncVars, partVars>>

\* The settlement chain executes the stake transactions submitted so far.
EnvInclude ==
    /\ pending > 0
    /\ pending' = 0
    /\ partStaked' = TRUE
    /\ UNCHANGED <<partProbation, codecVars, chainVars, syncVars, stakeVars>>

\* The participant is removed from the active set, or put in or out of probation.
EnvDestake ==
    /\ partStaked
    /\ partStaked' = FALSE
    /\ UNCHANGED <<pending, partProbation, codecVars, chainVars, syncVars, stakeVars>>

EnvProbation ==
    /\ partProbation' = ~partProbation
    /\ UNCHANGED <<pending, partStaked, codecVars, chainVars, syncVars, stakeVars>>

\* ----------------------------------------------------------- specifications
NoRes == [set |-> FALSE, blks |-> <<>>, isNil |-> TRUE, err |-> ErrNone, examined |-> 0]

\* FromAvail applied to the DA block under test.
CodecApply ==
    /\ ~cRes.set
    /\ LET r == FromAvail(cExts, cAppID, cCallIdx) IN
         cRes' = [set |-> TRUE, blks |-> r.blks, isNil |-> r.isNil, err |-> r.err,
                  examined |-> r.examined]
    /\ UNCHANGED <<cExts, cAppID, cCallIdx, chainVars, syncVars, stakeVars, partVars>>

\* getNextAvailBlockNumber applied to the local head and the DA history, the
\* DA client answering.
Resume ==
    /\ spc = "start"
    /\ availNextBlockNumber' = getNextAvailBlockNumber(head, da, FALSE)
    /\ searchCalls' = searchCalls + SearchBlockCalls(head)
    /\ spc' = "resumed"
    /\ UNCHANGED <<hdr, blk, edgeBlks, edgeI, processed, delivered, commits, closeCh,
                   unstakeCalls, syncRet>>
    /\ UNCHANGED <<codecVars, chainVars, stakeVars, partVars>>

TypeInit ==
    /\ cAppID = NodeAppID /\ cCallIdx = NodeCallIdx
    /\ cRes = NoRes
    /\ writes = {} /\ commits = <<>>
    /\ spc = "start" /\ availNextBlockNumber = 0 /\ hdr = 0 /\ blk = 0
    /\ edgeBlks = <<>> /\ edgeI = 1 /\ processed = {} /\ delivered = <<>>
    /\ closeCh = FALSE /\ unstakeCalls = 0 /\ syncRet = NoRet /\ searchCalls = 0
    /\ epc = "call" /\ callerRet = NoRet /\ stk = "off" /\ returnErr = ErrNone
    /\ inProbation = "unset" /\ staked = "unset"
    /\ txBuilt = 0 /\ retries = 0 /\ stakeBlk = "none"
    /\ pending = 0

QuietCodec == cExts = <<>>

QuietStaking ==
    /\ role = "unknown" /\ partStaked = FALSE /\ partProbation = FALSE

QuietSyncer ==
    /\ da = [n \in 0..MaxDA |-> <<>>] /\ head = 0

\* Sequences over S of length at most n.
SeqsUpTo(S, n) == UNION {[1..k -> S] : k \in 0..n}

\* The block codec on any DA block of at most MaxExt extrinsics.
InitCodec ==
    /\ TypeInit
    /\ cExts \in SeqsUpTo(Extrinsics, MaxExt)
    /\ QuietSyncer
    /\ QuietStaking

NextCodec == CodecApply

SpecCodec == InitCodec /\ [][NextCodec]_vars

\* The resume computation on any local head and any DA history.
InitResume ==
    /\ TypeInit
    /\ da \in [0..MaxDA -> HistContents]
    /\ head \in 0..MaxBlk
    /\ QuietCodec
    /\ QuietStaking

NextResume == Resume

SpecResume == InitResume /\ [][NextResume]_vars

\* The syncer of a node with a fresh local chain, on any of the DA histories.
InitSync ==
    /\ TypeInit
    /\ da \in SyncHistories
    /\ head = 0
    /\ QuietCodec
    /\ QuietStaking

NextSync ==
    \/ SyncStart
    \/ SyncReceive
    \/ SyncEdgeBlock
    \/ SyncAdvance
    \/ SyncShutdown
    \/ EnvClose

SpecSync == InitSync /\ [][NextSync]_vars

\* The staking state machine of a node of any role, whatever the participant
\* record says at the start.
InitStake ==
    /\ TypeInit
    /\ QuietCodec
    /\ QuietSyncer
    /\ role \in Roles
    /\ partStaked \in BOOLEAN
    /\ partProbation \in BOOLEAN

NextStake ==
    \/ EnsureStaked
    \/ EnsureStakedReturn
    \/ StkProbation
    \/ StkContains
    \/ StkDispatch
    \/ SpBuild
    \/ SpSend
    \/ SpWrite
    \/ TpWait
    \/ TpBuild
    \/ TpAdd
    \/ TpPoll
    \/ EnvInclude
    \/ EnvDestake
    \/ EnvProbation

SpecStake == InitStake /\ [][NextStake]_vars

\* The two tasks that write the local chain, side by side, from the point
\* where syncNode has opened the block stream of a fresh node (cursor 1, the
\* DA head as sync target): the syncer and the staking state machine of a
\* bootstrap sequencer (the direct-block path).
InitCore ==
    /\ cExts = <<>> /\ cAppID = NodeAppID /\ cCallIdx = NodeCallIdx
    /\ cRes = NoRes
    /\ da = [n \in 0..MaxDA |-> SyncContent((n + 1) % 4)]
    /\ head = 0 /\ writes = {} /\ commits = <<>>
    /\ spc = "recv" /\ availNextBlockNumber = 1 /\ hdr = MaxDA /\ blk = 0
    /\ edgeBlks = <<>> /\ edgeI = 1 /\ processed = {} /\ delivered = <<>>
    /\ closeCh = FALSE /\ unstakeCalls = 0 /\ syncRet = NoRet /\ searchCalls = 0
    /\ role = "bootstrap-sequencer"
    /\ epc = "call" /\ callerRet = NoRet /\ stk = "off" /\ returnErr = ErrNone
    /\ inProbation = "unset" /\ staked = "unset"
    /\ txBuilt = 0 /\ retries = 0 /\ stakeBlk = "none"
    /\ pending = 0 /\ partStaked = FALSE /\ partProbation = FALSE

NextCore ==
    \/ SyncReceive
    \/ SyncEdgeBlock
    \/ SyncAdvance
    \/ EnsureStaked
    \/ StkProbation
    \/ StkContains
    \/ StkDispatch
    \/ SpBuild
    \/ SpSend
    \/ SpWrite

SpecCore == InitCore /\ [][NextCore]_vars

\* -------------------------------------------------------------------- claims
\* C1: in syncNode a settlement block for which IsFraudProofBlock returned
\* true is never given to validator.Check and never given to WriteBlock.
C1_FraudFlaggedNeverCheckedNorWritten ==
    /\ \A r \in processed : r.fraud => ~r.checkCalled /\ ~r.writeCalled
    /\ \A w \in writes : w.src = "sync" => w.gated

\* A DA block's settlement blocks have gone through the loop, one of them
\* flagged by the fraud gate and another one written.
C1_Witness ==
    /\ \E r \in processed : r.fraud
    /\ \E r \in processed : ~r.fraud /\ r.writeCalled

\* C2: in syncNode a settlement block for which validator.Check returned an
\* error is never given to WriteBlock; the step that handles a block neither
\* returns from syncNode nor undoes an earlier write, and leaves the loop at
\* the next block of the same DA block.
C2_InvalidNeverWritten ==
    /\ \A r \in processed : r.checkErr => ~r.writeCalled
    /\ \A w \in writes : w.src = "sync" => w.checked

C2_LoopGoesOn ==
    (spc = "process" /\ edgeI <= Len(edgeBlks) /\ edgeI' # edgeI) =>
        /\ spc' = "process"
        /\ edgeI' = edgeI + 1
        /\ edgeBlks' = edgeBlks
        /\ syncRet' = syncRet
        /\ writes \subseteq writes'
        /\ Len(commits') >= Len(commits)
        /\ SubSeq(commits', 1, Len(commits)) = commits

C2_InvalidNeverWrittenLoopGoesOn ==
    [](C2_InvalidNeverWritten) /\ [][C2_LoopGoesOn]_vars

\* The validator rejected the first settlement block of a DA block and the
\* second one of the same DA block was written after it.
C2_Witness ==
    /\ \E r \in processed : r.checkErr
    /\ \E i \in 1..Len(commits) :
         /\ commits[i].idx = 2
         /\ \A j \in 1..Len(commits) : commits[j].pos = commits[i].pos => commits[j].idx = 2
    /\ \A r \in processed : ~r.fraud

\* C3 as claimed: every block given to WriteBlock, by the syncer or by the
\* staking state machine, passed the fraud gate and the validator before.
C3_EveryWritePassedBothChecks ==
    \A w \in writes : w.gated /\ w.checked

\* C3 amended: every block the syncer gives to WriteBlock passed the fraud
\* gate and the validator; the staking block of the direct-block path is
\* given to WriteBlock after its DA submission succeeded, without either check.
C3_SyncWritesPassedBothChecks ==
    \A w \in writes :
        /\ w.src = "sync" => w.gated /\ w.checked /\ ~w.sent
        /\ w.src = "stake" => ~w.gated /\ ~w.checked /\ w.sent

\* Both tasks have written a block.
C3_Witness ==
    /\ \E w \in writes : w.src = "sync" /\ w.ok
    /\ \E w \in writes : w.src = "stake" /\ w.ok
    /\ \E r \in processed : r.fraud
    /\ \E r \in processed : r.checkErr

StrictlyIncreasing(seq) == \A i, j \in 1..Len(seq) : i < j => seq[i] < seq[j]

\* C4 as claimed: the syncer's writes are in strictly increasing DA block
\* number order, and in extrinsic order within one DA block, whatever the
\* stream delivers.
C4_CommitsInDANumberOrder ==
    \A i, j \in 1..Len(commits) :
        i < j => \/ commits[i].da < commits[j].da
                 \/ /\ commits[i].pos = commits[j].pos
                    /\ commits[i].idx < commits[j].idx

\* C4 amended: the syncer's writes are in the order in which the stream
\* delivered the DA blocks, and in extrinsic order within one DA block; they
\* are in strictly increasing DA block number order when the stream delivers
\* strictly increasing numbers. A DA block whose number is not greater than
\* the last one handled is handled like any other.
C4_CommitsInDeliveryOrder ==
    /\ \A i, j \in 1..Len(commits) :
         i < j => \/ commits[i].pos < commits[j].pos
                  \/ /\ commits[i].pos = commits[j].pos
                     /\ commits[i].idx < commits[j].idx
    /\ \A i \in 1..Len(commits) :
         /\ commits[i].pos \in 1..Len(delivered)
         /\ commits[i].da = delivered[commits[i].pos]
    /\ StrictlyIncreasing(delivered) => C4_CommitsInDANumberOrder

\* Two DA blocks delivered in increasing order have been written from, one
\* of them with two settlement blocks.
C4_Witness ==
    /\ Len(delivered) = 2 /\ delivered[1] < delivered[2]
    /\ Len(commits) = 3
    /\ commits[1].pos = 1 /\ commits[3].pos = 2

\* C5: at no time are two stake submissions of the node accepted (by the
\* transaction pool or by the DA chain) and not yet effective.
C5_NoDoubleStake == pending <= 1

StakeState == <<txBuilt, retries, stakeBlk, pending, returnErr, writes, head, partStaked>>

\* C6: a Contains query of the background loop that reports staked=true sends
\* the loop back to the probation check; no stake transaction is constructed,
\* no AddTx is issued and no staking block is built, sent or written in it.
C6_StakedStep ==
    (stk = "contains" /\ staked' = "true") =>
        /\ stk' = "probation"
        /\ StakeState' = StakeState

C6_StakedCycleIdempotent == [][C6_StakedStep]_vars

\* The loop has just seen staked=true, after the node was staked by a stake
\* transaction the loop itself submitted.
C6_Witness ==
    /\ stk = "probation" /\ staked = "true"
    /\ inProbation = "false"
    /\ txBuilt >= 1

\* The matching extrinsics of the DA block under test, those of them that
\* decode to a settlement block, and their block numbers in extrinsic order.
Matching(e) == e.AppID = cAppID /\ e.CallIndex = cCallIdx
Decoding(e) == Matching(e) /\ e.Args.tag = "block"
PayloadCorrupt(e) == Matching(e) /\ e.Args.tag = "blob"
RECURSIVE NumbersOf(_)
NumbersOf(seq) ==
    IF seq = <<>> THEN <<>> ELSE <<Head(seq).Args.Number>> \o NumbersOf(Tail(seq))
Embedded == NumbersOf(SelectSeq(cExts, Decoding))
NMatching == Cardinality({i \in 1..Len(cExts) : Matching(cExts[i])})

\* C7 as claimed: FromAvail returns the blocks of the K matching extrinsics
\* that decode, in extrinsic order, and no error for the N-K that do not.
C7_ReturnsEveryDecodingBlock ==
    cRes.set =>
        /\ cRes.blks = Embedded
        /\ cRes.err \in {ErrNone, ErrNoExtrinsicFound}

\* C7 amended: when no matching extrinsic holds a Blob whose Data fails to
\* decode, FromAvail returns the blocks of the K matching extrinsics that
\* decode, in extrinsic order, with no error when K > 0 and with a nil result
\* and ErrNoExtrinsicFound when K = 0; otherwise it returns a nil result and
\* the decode error.
C7_ReturnsDecodingBlocksUnlessPayloadCorrupt ==
    cRes.set =>
        IF \E i \in 1..Len(cExts) : PayloadCorrupt(cExts[i])
        THEN cRes.blks = <<>> /\ cRes.isNil /\ cRes.err = ErrDecode
        ELSE /\ cRes.blks = Embedded
             /\ cRes.isNil = (Len(Embedded) = 0)
             /\ cRes.err = IF Len(Embedded) = 0 THEN ErrNoExtrinsicFound ELSE ErrNone

\* Three extrinsics: a matching one that decodes, a matching one that fails at
\* the byte-sequence or Blob stage, one with a foreign call index that would
\* decode.
C7_Witness ==
    /\ cRes.set /\ Len(cExts) = 3
    /\ Len(Embedded) = 1 /\ NMatching = 2
    /\ \E i \in 1..3 : Matching(cExts[i]) /\ cExts[i].Args.tag \in {"garbage", "bytes"}
    /\ \E i \in 1..3 :
         /\ cExts[i].AppID = cAppID /\ cExts[i].CallIndex # cCallIdx
         /\ cExts[i].Args.tag = "block"
    /\ cRes.blks = Embedded

\* C8: when every matching extrinsic, if any, fails at the byte-sequence or
\* Blob stage, FromAvail returns a nil result and ErrNoExtrinsicFound.
C8_NothingFoundIsNoExtrinsicFound ==
    (cRes.set /\ \A i \in 1..Len(cExts) :
                    Matching(cExts[i]) => cExts[i].Args.tag \in {"garbage", "bytes"}) =>
        /\ cRes.isNil
        /\ cRes.blks = <<>>
        /\ cRes.err = ErrNoExtrinsicFound

\* A DA block with a matching extrinsic failing at each of the two outer
\* stages and a foreign extrinsic that would decode.
C8_Witness ==
    /\ cRes.set /\ Len(cExts) = 3
    /\ \E i \in 1..3 : Matching(cExts[i]) /\ cExts[i].Args.tag = "garbage"
    /\ \E i \in 1..3 : Matching(cExts[i]) /\ cExts[i].Args.tag = "bytes"
    /\ \E i \in 1..3 : ~Matching(cExts[i]) /\ cExts[i].Args.tag = "block"
    /\ cRes.err = ErrNoExtrinsicFound

\* C9: when a matching extrinsic holds a Blob whose Data fails to decode,
\* FromAvail returns a nil result and the decode error, which is not
\* ErrNoExtrinsicFound, and examines no extrinsic after the first such one.
C9_PayloadFailureIsFatal ==
    \A f \in 1..Len(cExts) :
        (/\ cRes.set
         /\ PayloadCorrupt(cExts[f])
         /\ \A i \in 1..(f - 1) : ~PayloadCorrupt(cExts[i])) =>
            /\ cRes.isNil
            /\ cRes.blks = <<>>
            /\ cRes.err = ErrDecode
            /\ cRes.err # ErrNoExtrinsicFound
            /\ cRes.examined = f

\* A block was extracted from the first extrinsic, the second one holds the
\* corrupt payload, and a third one that decodes follows.
C9_Witness ==
    /\ cRes.set /\ Len(cExts) = 3
    /\ Decoding(cExts[1]) /\ PayloadCorrupt(cExts[2]) /\ Decoding(cExts[3])
    /\ cRes.err = ErrDecode

\* DA block n of the history embeds settlement block m.
Embeds(n, m) ==
    \E i \in 1..Len(da[n]) :
        /\ da[n][i].AppID = NodeAppID /\ da[n][i].CallIndex = NodeCallIdx
        /\ da[n][i].Args.tag = "block" /\ da[n][i].Args.Number = m

CleanHistory ==
    \A n \in DOMAIN da : \A i \in 1..Len(da[n]) :
        da[n][i].Args.tag \in {"block"}

\* C10: with the local head at settlement block M > 0 and a DA history of
\* decodable blocks in which DA block D, and no other, embeds block M,
\* getNextAvailBlockNumber returns D.
C10_ResumeReturnsEmbeddingBlock ==
    \A d \in 0..MaxDA :
        (/\ spc = "resumed"
         /\ head > 0
         /\ CleanHistory
         /\ Embeds(d, head)
         /\ \A n \in 0..MaxDA : Embeds(n, head) => n = d) =>
            availNextBlockNumber = d

\* C11: with the local head at genesis getNextAvailBlockNumber returns 1 and
\* issues no SearchBlock query; with the head above genesis and a SearchBlock
\* that returns an error it returns 0.
C11_GenesisResumesAtOneSearchErrorAtZero ==
    spc = "resumed" =>
        /\ head = 0 => availNextBlockNumber = 1 /\ searchCalls = 0
        /\ (head > 0 /\ SearchBlock(0, head, da, FALSE).err) =>
               availNextBlockNumber = 0 /\ searchCalls = 1

\* The resume ran on a chain at genesis whose DA history embeds settlement
\* blocks in DA block 0.
C11_Witness ==
    /\ spc = "resumed" /\ head = 0 /\ availNextBlockNumber = 1
    /\ Embeds(0, 1)

\* C12: on the pool path the AddTx retry loop is bounded: when every AddTx
\* fails, AddTx is called exactly ten times and the attempt then returns
\* (false, the AddTx error) without reaching the poll; when an AddTx succeeds the
\* attempt goes to the poll and calls AddTx no more.
C12_FailedAddTxCounted ==
    (stk = "tp_add" /\ retries' > retries) =>
        /\ retries' = retries + 1
        /\ pending' = pending
        /\ IF retries' < 10
           THEN stk' = "tp_add"
           ELSE stk' = "probation" /\ returnErr' = ErrAddTx /\ staked' = "false"

C12_AddTxSuccessEndsRetries ==
    /\ (stk = "tp_add" /\ stk' # "tp_add" /\ retries' = retries) =>
           stk' = "tp_poll" /\ pending' = pending + 1
    /\ stk = "tp_poll" =>
           stk' \in {"tp_poll", "probation", "exit"} /\ retries' = retries /\ pending' <= pending

C12_AddTxRetriesBounded ==
    /\ [](retries <= 10 /\ (stk = "tp_add" => retries < 10))
    /\ [][C12_FailedAddTxCounted /\ C12_AddTxSuccessEndsRetries]_vars

\* A pool-path attempt has just given up after ten failed AddTx calls.
C12_Witness ==
    /\ role = "sequencer" /\ stk = "probation"
    /\ retries = 10 /\ returnErr = ErrAddTx /\ pending = 0

\* C13: the receive step that takes the shutdown signal calls UnStake exactly
\* once and syncNode returns without an error, whether UnStake failed or not;
\* from then on no DA block is taken from the stream and no settlement block is
\* validated or committed.
C13_ShutdownReturns ==
    (spc = "recv" /\ unstakeCalls' # unstakeCalls) =>
        /\ closeCh
        /\ unstakeCalls' = unstakeCalls + 1
        /\ spc' = "done" /\ syncRet'.set /\ syncRet'.err = ErrNone

C13_NothingAfterShutdown ==
    unstakeCalls > 0 =>
        /\ delivered' = delivered /\ processed' = processed
        /\ commits' = commits /\ writes' = writes
        /\ unstakeCalls' = unstakeCalls /\ syncRet' = syncRet

C13_ShutdownUnstakesOnceAndStops ==
    /\ [](/\ unstakeCalls <= 1
          /\ unstakeCalls = 1 => spc = "done" /\ syncRet.set /\ syncRet.err = ErrNone)
    /\ [][C13_ShutdownReturns /\ C13_NothingAfterShutdown]_vars

\* The shutdown signal was taken after a DA block had been handled and a
\* settlement block committed, with more of the stream still to come.
C13_Witness ==
    /\ unstakeCalls = 1 /\ spc = "done"
    /\ Len(delivered) = 1 /\ commits # <<>>
    /\ delivered[1] # hdr

\* C14: the staking state machine does not terminate by itself for any role:
\* once started, and after a successful staking through either path, the
\* background loop is still running.
C14_BackgroundLoopNeverExits == stk # "exit"

\* C15: a participant-query error is never returned as an error of the staking
\* attempt: after an InProbation or Contains error, the pool path's poll
\* included, the loop is back at a query and the attempt's result holds no
\* query error.
C15_QueryErrorNeverReturned ==
    /\ returnErr # ErrQuery
    /\ inProbation = "err" => stk = "probation"
    /\ staked = "err" => stk = "probation"

\* The stream has delivered consecutive DA blocks starting at the resume
\* cursor, which is 1 for a local chain at genesis.
StreamInOrder == \A i \in 1..Len(delivered) : delivered[i] = i

\* C16: without a shutdown, once the stream has delivered the DA blocks from the
\* resume cursor up to the one whose number is the latest header fetched at
\* start, syncNode has left its loop when that DA block is handled, whatever
\* the codec, the fraud gate, the validator and WriteBlock returned for it, and
\* has returned that DA block's number as the cursor.
C16_CaughtUpReturnsCursor ==
    (/\ unstakeCalls = 0
     /\ StreamInOrder
     /\ Len(delivered) > 0
     /\ delivered[Len(delivered)] = hdr
     /\ spc \in {"recv", "done"}) =>
        spc = "done" /\ syncRet = Ret(hdr, ErrNone)

\* C17: when the syncer is back at its receive step after handling a DA block,
\* the resume cursor is that DA block's number, whether the codec returned
\* settlement blocks, 'no compatible extrinsic' or another decode error; and no
\* WriteBlock call is made for a DA block the codec returned an error for.
C17_CursorIsLastHandledBlock ==
    /\ (spc = "recv" /\ Len(delivered) > 0 /\ StreamInOrder) =>
           availNextBlockNumber = delivered[Len(delivered)]
    /\ \A i \in 1..Len(commits) :
           FromAvail(da[commits[i].da], NodeAppID, NodeCallIdx).err = ErrNone

\* The positions of the background loop inside a staking attempt.
StakingAttempt ==
    {"dispatch", "sp_build", "sp_send", "sp_write", "tp_wait", "tp_build", "tp_add", "tp_poll"}

\* C18: a stake transaction is constructed, submitted to the pool or put in a
\* staking block only in a loop iteration whose InProbation query returned false
\* without an error and whose Contains query returned false without an error;
\* an iteration whose InProbation query returned true goes back to the
\* probation check without querying the staked status.
C18_AttemptOnlyAfterBothQueries ==
    /\ stk \in StakingAttempt => inProbation = "false" /\ staked = "false"
    /\ inProbation \in {"true", "err"} => stk = "probation" /\ staked = "unset"

C18_StakeTxStep ==
    (txBuilt' # txBuilt \/ pending' > pending \/ writes' # writes) =>
        /\ stk \in StakingAttempt
        /\ inProbation = "false" /\ staked = "false"

C18_NoStakingWhileInProbation ==
    /\ []C18_AttemptOnlyAfterBothQueries
    /\ [][C18_StakeTxStep]_vars

\* After a failed staking attempt the node was put in probation, and the next
\* iteration's InProbation query returned true.
C18_Witness ==
    /\ inProbation = "true" /\ partProbation /\ stk = "probation"
    /\ txBuilt = 1 /\ pending = 0 /\ ~partStaked

\* C19: on the direct-block path, taken only by the bootstrap-sequencer, the
\* staking block is handed to WriteBlock only after SendAndWaitForStatus
\* succeeded for that block; when building, signing or the DA submission fails,
\* the attempt returns that error and makes no WriteBlock call.
C19_WrittenStakingBlockWasSent ==
    /\ \A w \in writes : w.src = "stake" => w.sent
    /\ stk \in {"sp_build", "sp_send", "sp_write"} => role = "bootstrap-sequencer"
    /\ stk = "sp_write" => stakeBlk = "sent"
    /\ role # "bootstrap-sequencer" => writes = {}

C19_FailedAttemptWritesNothing ==
    /\ (stk \in {"sp_build", "sp_send"} /\ stk' # stk) =>
           /\ writes' = writes
           /\ \/ stk' \in {"sp_send", "sp_write"} /\ returnErr' = returnErr
              \/ /\ stk' = "probation"
                 /\ returnErr' \in {ErrBlockBuilder, ErrStakeTx, ErrSignTx, ErrBuild, ErrSend}
                 /\ pending' = pending
    /\ writes' # writes => stk = "sp_write" /\ stakeBlk = "sent"

C19_DirectPathWritesAfterSend ==
    /\ []C19_WrittenStakingBlockWasSent
    /\ [][C19_FailedAttemptWritesNothing]_vars

\* One direct-path attempt failed at the DA submission and wrote nothing; the
\* next one was submitted and its staking block written.
C19_Witness ==
    /\ role = "bootstrap-sequencer" /\ txBuilt = 2
    /\ writes = {[src |-> "stake", gated |-> FALSE, checked |-> FALSE, sent |-> TRUE, ok |-> TRUE]}
    /\ partStaked /\ head = 1

\* The hard errors of a staking attempt.
HardStakingErrors == {ErrStakeTx, ErrSignTx, ErrSend, ErrAddTx}

\* C20: a hard staking error produced inside the background task is the error
\* ensureStaked returns to its caller, under every interleaving of the caller's
\* return with the background task, and the background loop goes on with its
\* next iteration.
C20_HardErrorReturnedToCaller ==
    /\ (epc = "returned" /\ returnErr \in HardStakingErrors) => callerRet.err = returnErr
    /\ returnErr \in HardStakingErrors => stk # "exit"

====
